---- MODULE Spec2Model ----
(***************************************************************************)
(* A model of the Bitbank connector: the order-book reconciler of          *)
(* examples/bitbank/bitbank_websocket_orderbook.rs (DepthData) and the     *)
(* request / WebSocket handlers of src/exchanges/bitbank.rs.               *)
(*                                                                         *)
(* Text is modelled by TLA+ strings: Len, \o and SubSeq act on them as     *)
(* they act on Rust strings of one-byte characters.                        *)
(***************************************************************************)
EXTENDS Naturals, Sequences, FiniteSets, TLC

(***************************************************************************)
(* Bounds of the model.                                                    *)
(***************************************************************************)
\* number of distinct price strings, starting at "9" ("9", "10", ...)
NumPrices == 2
\* number of distinct sequence ids, starting at "9" ("9", "10", "11", ...)
NumSeqs == 3
\* quantities are the decimal strings "0" .. MaxAmount
MaxAmount == 1
\* rows per side of a DepthDiff or DepthWhole
MaxRows == 1
\* distinct sequence ids of the diffs that arrive before the first snapshot
MaxDiffs == 2
\* length of the configured channel list
MaxChannels == 2
\* connections made by the transport (the first one and the reconnections)
MaxConnections == 2

(***************************************************************************)
(* Strings of decimal digits: formatting, parsing and the byte-wise order  *)
(* of Rust's String.                                                       *)
(***************************************************************************)
Digit(d) == SubSeq("0123456789", d + 1, d + 1)

RECURSIVE to_string(_)
to_string(n) == IF n < 10 THEN Digit(n) ELSE to_string(n \div 10) \o Digit(n % 10)

CharAt(s, i) == SubSeq(s, i, i)

Rest(s, i) == SubSeq(s, i, Len(s))

\* the byte of a digit character, less the byte of '0'
DigitVal(c) == CHOOSE d \in 0..9 : Digit(d) = c

RECURSIVE ParseNum(_)
ParseNum(s) ==
    IF Len(s) = 0 THEN 0
    ELSE 10 * ParseNum(SubSeq(s, 1, Len(s) - 1)) + DigitVal(CharAt(s, Len(s)))

\* `a < b` on two Strings: lexicographic on the bytes
RECURSIVE StrLess(_, _)
StrLess(a, b) ==
    IF Len(b) = 0 THEN FALSE
    ELSE IF Len(a) = 0 THEN TRUE
    ELSE IF CharAt(a, 1) # CharAt(b, 1)
         THEN DigitVal(CharAt(a, 1)) < DigitVal(CharAt(b, 1))
         ELSE StrLess(Rest(a, 2), Rest(b, 2))

\* str.parse::<Decimal>() on a string of digits
ParseDecimal(s) == ParseNum(s)

(***************************************************************************)
(* BTreeMap<String, V>: a function on its set of keys, iterated in the     *)
(* order of the keys.                                                      *)
(***************************************************************************)
EmptyMap == [k \in {} |-> 0]

MapInsert(m, k, v) == [x \in (DOMAIN m) \cup {k} |-> IF x = k THEN v ELSE m[x]]

MapRemove(m, k) == [x \in (DOMAIN m) \ {k} |-> m[x]]

MinKey(S) == CHOOSE k \in S : \A o \in S \ {k} : StrLess(k, o)

\* the keys of a BTreeMap<String, _> in iteration order
RECURSIVE IterKeys(_)
IterKeys(S) ==
    IF S = {} THEN <<>>
    ELSE LET k == MinKey(S) IN <<k>> \o IterKeys(S \ {k})

(***************************************************************************)
(* The events.  A row is the JSON array [price, amount] of two strings.    *)
(***************************************************************************)
Prices == {to_string(9 + i) : i \in 0..(NumPrices - 1)}

SeqIds == {to_string(9 + i) : i \in 0..(NumSeqs - 1)}

Amounts == {to_string(n) : n \in 0..MaxAmount}

Rows == Prices \X Amounts

RowLists == UNION {[1..n -> Rows] : n \in 0..MaxRows}

\* struct DepthDiff (the fields the reconciler reads)
DepthDiff == [a : RowLists, b : RowLists, s : SeqIds]

\* struct DepthWhole (the fields the reconciler reads)
DepthWhole == [asks : RowLists, bids : RowLists, sequenceId : SeqIds]

(***************************************************************************)
(* State.                                                                  *)
(***************************************************************************)
VARIABLES
    diff_buffer,    \* DepthData.diff_buffer : sequence id -> DepthDiff
    asks,           \* DepthData.asks : price -> amount
    bids,           \* DepthData.bids : price -> amount
    is_complete,    \* DepthData.is_complete
    panicked,       \* a panic (unwrap, expect, assert) has unwound the thread
    last,           \* the last operation and its argument
    arrived,        \* the diffs received before the first snapshot, by sequence id
    websocket_channels, \* BitbankOptions.websocket_channels of the handler
    connection,     \* the transport's connection: "none", "open", "reconnecting", "closed"
    connections,    \* how many connections the transport has made
    sent,           \* the frames the last handler call returned
    sink_calls,     \* how often the last handler call invoked message_handler
    synced,         \* a snapshot was processed on the current connection
    response,       \* what the last handle_response returned
    request,        \* what the last build_request was given and returned
    inbox,          \* the frames received and not yet handed to handle_message
    callback,       \* the handle_message call whose message_handler is running
    bitbank_options \* the BitbankOptions under construction

book_vars == <<diff_buffer, asks, bids, is_complete>>

ws_vars == <<websocket_channels, connection, connections, sent, sink_calls, synced>>

dispatch_vars == <<inbox, callback>>

vars == <<diff_buffer, asks, bids, is_complete, panicked, last, arrived,
          websocket_channels, connection, connections, sent, sink_calls, synced,
          response, request, inbox, callback, bitbank_options>>

\* the DepthData as one value
Board == [diff_buffer |-> diff_buffer, asks |-> asks, bids |-> bids,
          is_complete |-> is_complete]

\* DepthData::new
new == [diff_buffer |-> EmptyMap, asks |-> EmptyMap, bids |-> EmptyMap,
        is_complete |-> FALSE]

(***************************************************************************)
(* impl fmt::Display for DepthData: the view of the book.  A line is the   *)
(* price, a tab, the amount with four decimals and a newline.              *)
(***************************************************************************)
\* the number of levels shown per side
DisplayDepth == 20

\* Iterator::take
take(seq, n) == SubSeq(seq, 1, IF Len(seq) < n THEN Len(seq) ELSE n)

\* Iterator::rev
rev(seq) == [i \in 1..Len(seq) |-> seq[Len(seq) + 1 - i]]

\* self.asks.iter().take(20).rev(): the prices in the order they are written
shown_asks(board) == rev(take(IterKeys(DOMAIN board.asks), DisplayDepth))

\* self.bids.iter().rev().take(20)
shown_bids(board) == take(rev(IterKeys(DOMAIN board.bids)), DisplayDepth)

\* "{}\t{:.4}\n" of a price and an amount (amounts are whole numbers here)
level_line(price, amount) == price \o "\t" \o to_string(amount) \o ".0000\n"

RECURSIVE level_lines(_, _)
level_lines(side, prices) ==
    IF prices = <<>> THEN ""
    ELSE level_line(Head(prices), side[Head(prices)])
         \o level_lines(side, Tail(prices))

\* fmt: assert!(self.is_complete) panics on a DepthData that is not complete
fmt(board) ==
    IF ~board.is_complete THEN [panic |-> TRUE]
    ELSE [panic |-> FALSE,
          asks |-> shown_asks(board),
          bids |-> shown_bids(board),
          text |-> "\n" \o level_lines(board.asks, shown_asks(board))
                   \o "asks\nmid\nbids\n"
                   \o level_lines(board.bids, shown_bids(board))]

(***************************************************************************)
(* DepthData::insert_diff                                                  *)
(***************************************************************************)
insert_row_keep_zero(side, row) ==
    MapInsert(side, row[1], ParseDecimal(row[2]))

insert_row_ignore_zero(side, row) ==
    IF ParseDecimal(row[2]) = 0 THEN side
    ELSE MapInsert(side, row[1], ParseDecimal(row[2]))

\* one pass of the loop body: a zero amount removes the level when it is
\* present, any other amount inserts it
insert_row(side, row) ==
    LET price == row[1]
        amount == ParseDecimal(row[2])
    IN  IF amount = 0
        THEN IF price \in DOMAIN side THEN MapRemove(side, price) ELSE side
        ELSE MapInsert(side, price, amount)

RECURSIVE insert_rows(_, _)
insert_rows(side, rows) ==
    IF rows = <<>> THEN side
    ELSE insert_rows(insert_row(side, Head(rows)), Tail(rows))

insert_diff_crossed(board, diff) ==
    [board EXCEPT !.asks = insert_rows(board.asks, diff.b),
                  !.bids = insert_rows(board.bids, diff.a)]

insert_diff_completes(board, diff) ==
    [board EXCEPT !.asks = insert_rows(board.asks, diff.a),
                  !.bids = insert_rows(board.bids, diff.b),
                  !.is_complete = TRUE]

insert_diff(board, diff) ==
    [board EXCEPT !.asks = insert_rows(board.asks, diff.a),
                  !.bids = insert_rows(board.bids, diff.b)]

(***************************************************************************)
(* DepthData::process_diff_buffer                                          *)
(***************************************************************************)
replay_row(side, row) ==
    LET price == row[1]
        amount == ParseDecimal(row[2])
    IN  IF amount = 0 THEN MapRemove(side, price)
        ELSE MapInsert(side, price, amount)

RECURSIVE replay_rows(_, _)
replay_rows(side, rows) ==
    IF rows = <<>> THEN side
    ELSE replay_rows(replay_row(side, Head(rows)), Tail(rows))

\* the loop over diff_buffer.values(), in key order
RECURSIVE replay_diffs(_, _, _)
replay_diffs(board, buffer, keys) ==
    IF keys = <<>> THEN board
    ELSE LET d == buffer[Head(keys)]
         IN  replay_diffs([board EXCEPT !.asks = replay_rows(board.asks, d.a),
                                        !.bids = replay_rows(board.bids, d.b)],
                          buffer, Tail(keys))

process_diff_buffer(board) ==
    [replay_diffs(board, board.diff_buffer, IterKeys(DOMAIN board.diff_buffer))
        EXCEPT !.diff_buffer = EmptyMap]

(***************************************************************************)
(* DepthData::update_whole.  The result carries the flag `panic`: an       *)
(* assert_ne! on a zero amount unwinds in the middle of the installation.  *)
(***************************************************************************)
\* `key < &&seq` on the Strings
seq_before(key, seq) == StrLess(key, seq)

keys_to_remove(buffer, seq) == {key \in DOMAIN buffer : seq_before(key, seq)}

RECURSIVE install_rows_lenient(_, _)
install_rows_lenient(side, rows) ==
    IF rows = <<>> THEN [side |-> side, panic |-> FALSE]
    ELSE IF ParseDecimal(Head(rows)[2]) = 0
         THEN install_rows_lenient(side, Tail(rows))
         ELSE install_rows_lenient(
                 MapInsert(side, Head(rows)[1], ParseDecimal(Head(rows)[2])),
                 Tail(rows))

\* one side's loop: [side, panic], stopping at the first zero amount
RECURSIVE install_rows(_, _)
install_rows(side, rows) ==
    IF rows = <<>> THEN [side |-> side, panic |-> FALSE]
    ELSE LET price == Head(rows)[1]
             amount == ParseDecimal(Head(rows)[2])
         IN  IF amount = 0 THEN [side |-> side, panic |-> TRUE]
             ELSE install_rows(MapInsert(side, price, amount), Tail(rows))

update_whole_toggles(board, whole) ==
    [board |-> [board EXCEPT !.asks = install_rows(EmptyMap, whole.asks).side,
                             !.bids = install_rows(EmptyMap, whole.bids).side,
                             !.is_complete = ~board.is_complete],
     panic |-> FALSE]

update_whole(board, whole) ==
    LET seq == whole.sequenceId
        kept == [k \in (DOMAIN board.diff_buffer)
                        \ keys_to_remove(board.diff_buffer, seq)
                    |-> board.diff_buffer[k]]
        a == install_rows(EmptyMap, whole.asks)
        b == install_rows(EmptyMap, whole.bids)
        pruned == [board EXCEPT !.diff_buffer = kept]
    IN  IF a.panic
        THEN [board |-> [pruned EXCEPT !.asks = a.side, !.bids = EmptyMap],
              panic |-> TRUE]
        ELSE IF b.panic
        THEN [board |-> [pruned EXCEPT !.asks = a.side, !.bids = b.side],
              panic |-> TRUE]
        ELSE [board |-> [process_diff_buffer(
                            [pruned EXCEPT !.asks = a.side, !.bids = b.side])
                         EXCEPT !.is_complete = TRUE],
              panic |-> FALSE]

(***************************************************************************)
(* The reconciler driven directly: on_diff = insert_diff, on_snapshot =    *)
(* update_whole, as the event closure calls them.                          *)
(***************************************************************************)
NoOp == [op |-> "none"]

\* the parts of the state a specification does not use
Idle ==
    /\ websocket_channels = <<>>
    /\ connection = "none"
    /\ connections = 0
    /\ sent = <<>>
    /\ sink_calls = 0
    /\ synced = FALSE
    /\ response = [kind |-> "none"]
    /\ request = [kind |-> "none"]
    /\ inbox = <<>>
    /\ callback = [running |-> FALSE]
    /\ bitbank_options = [kind |-> "none"]

SetBoard(board) ==
    /\ diff_buffer' = board.diff_buffer
    /\ asks' = board.asks
    /\ bids' = board.bids
    /\ is_complete' = board.is_complete

\* board.insert_diff(&depth_data)
ApplyDiff(d) ==
    /\ ~panicked
    /\ \E board \in {insert_diff(Board, d)} : SetBoard(board)
    /\ UNCHANGED panicked

\* board.update_whole(depth_data)
ApplyWhole(w) ==
    /\ ~panicked
    /\ \E r \in {update_whole(Board, w)} :
           /\ SetBoard(r.board)
           /\ panicked' = r.panic

DoDiff(d) == ApplyDiff(d) /\ last' = [op |-> "diff", arg |-> d]

DoWhole(w) == ApplyWhole(w) /\ last' = [op |-> "whole", arg |-> w]

\* format!("{}", board)
ApplyFmt ==
    /\ ~panicked
    /\ panicked' = fmt(Board).panic
    /\ UNCHANGED book_vars

\* on_diff, on_snapshot and the view of the book; `last` also records the
\* DepthData the call found and, of a snapshot, whether it repeats the call
\* before it
OnDiff(d) ==
    /\ ApplyDiff(d)
    /\ last' = [op |-> "diff", arg |-> d, before |-> Board]
    /\ UNCHANGED <<arrived, ws_vars, response, request, dispatch_vars, bitbank_options>>

OnSnapshot(w) ==
    /\ ApplyWhole(w)
    /\ last' = [op |-> "whole", arg |-> w, before |-> Board,
                repeated |-> (last.op = "whole" /\ last.arg = w)]
    /\ UNCHANGED <<arrived, ws_vars, response, request, dispatch_vars, bitbank_options>>

OnDisplay ==
    /\ ApplyFmt
    /\ last' = [op |-> "fmt", before |-> Board, out |-> fmt(Board)]
    /\ UNCHANGED <<arrived, ws_vars, response, request, dispatch_vars, bitbank_options>>

InitBook ==
    /\ diff_buffer = new.diff_buffer
    /\ asks = new.asks
    /\ bids = new.bids
    /\ is_complete = new.is_complete
    /\ panicked = FALSE
    /\ last = NoOp
    /\ arrived = EmptyMap
    /\ Idle

NextBook ==
    \/ \E d \in DepthDiff : OnDiff(d)
    \/ \E w \in DepthWhole : OnSnapshot(w)
    \/ OnDisplay

\* any sequence of diffs, snapshots and views on a new DepthData
SpecBook == InitBook /\ [][NextBook]_vars

(***************************************************************************)
(* Diffs of at most MaxDiffs sequence ids, in any order, and then one      *)
(* snapshot.  `arrived` records the diffs received, the last one of each   *)
(* sequence id.                                                            *)
(***************************************************************************)
ArriveDiff(d) ==
    /\ last.op # "whole"
    /\ Cardinality((DOMAIN arrived) \cup {d.s}) <= MaxDiffs
    /\ DoDiff(d)
    /\ arrived' = MapInsert(arrived, d.s, d)
    /\ UNCHANGED <<ws_vars, response, request, dispatch_vars, bitbank_options>>

ArriveSnapshot(w) ==
    /\ last.op # "whole"
    /\ DoWhole(w)
    /\ UNCHANGED <<arrived, ws_vars, response, request, dispatch_vars, bitbank_options>>

NextArrival ==
    \/ \E d \in DepthDiff : ArriveDiff(d)
    \/ \E w \in DepthWhole : ArriveSnapshot(w)

SpecArrival == InitBook /\ [][NextArrival]_vars

(***************************************************************************)
(* update_whole as a function of the DepthData it is called on: the        *)
(* buffer holds any diffs of at most MaxDiffs sequence ids, each under its *)
(* own sequence id.                                                        *)
(***************************************************************************)
Buffers ==
    UNION {[K -> DepthDiff] : K \in {S \in SUBSET SeqIds : Cardinality(S) <= MaxDiffs}}

InitWhole ==
    /\ diff_buffer \in {m \in Buffers : \A k \in DOMAIN m : m[k].s = k}
    /\ asks = EmptyMap
    /\ bids = EmptyMap
    /\ is_complete = FALSE
    /\ panicked = FALSE
    /\ last = NoOp
    /\ arrived = diff_buffer
    /\ Idle

UpdateWhole(w) ==
    /\ last.op = "none"
    /\ DoWhole(w)
    /\ UNCHANGED <<arrived, ws_vars, response, request, dispatch_vars, bitbank_options>>

NextWhole == \E w \in DepthWhole : UpdateWhole(w)

SpecWhole == InitWhole /\ [][NextWhole]_vars

(***************************************************************************)
(* JSON on the wire.  serde_json::Value is modelled by the values below;   *)
(* to_json writes a value as serde_json writes it, and from_str reads back *)
(* the texts to_json writes and rejects every other text of the model.     *)
(***************************************************************************)
depth_diff_btc_jpy == "depth_diff_btc_jpy"

depth_whole_btc_jpy == "depth_whole_btc_jpy"

transactions_btc_jpy == "transactions_btc_jpy"

RECURSIVE rows_json(_)
rows_json(rows) ==
    IF rows = <<>> THEN ""
    ELSE "[\"" \o Head(rows)[1] \o "\",\"" \o Head(rows)[2] \o "\"]"
         \o (IF Len(rows) > 1 THEN "," ELSE "") \o rows_json(Tail(rows))

IsDepthDiff(data) == DOMAIN data = {"a", "b", "s"}

IsDepthWhole(data) == DOMAIN data = {"asks", "bids", "sequenceId"}

data_json(data) ==
    IF IsDepthDiff(data)
    THEN "{\"a\":[" \o rows_json(data.a) \o "],\"b\":[" \o rows_json(data.b)
         \o "],\"t\":1,\"s\":\"" \o data.s \o "\"}"
    ELSE "{\"asks\":[" \o rows_json(data.asks) \o "],\"bids\":["
         \o rows_json(data.bids)
         \o "],\"asks_over\":\"0\",\"bids_under\":\"0\",\"asks_under\":\"0\""
         \o ",\"bids_over\":\"0\",\"ask_market\":\"0\",\"bid_market\":\"0\""
         \o ",\"timestamp\":1,\"sequenceId\":\"" \o data.sequenceId \o "\"}"

\* the session object of an OPEN or CONNECT packet
SidObject == [kind |-> "object"]

to_json(v) ==
    IF v.kind = "object" THEN "{\"sid\":\"x\"}"
    ELSE "[\"message\",{\"message\":{\"data\":" \o data_json(v.data)
         \o "},\"room_name\":\"" \o v.room_name \o "\"}]"

\* the events of the wire: one-sided rows at the first price, stamped with
\* the first sequence id
WireRowLists == {r \in RowLists : \A i \in 1..Len(r) : r[i][1] = to_string(9)}

WireDiffs == {d \in DepthDiff : d.a \in WireRowLists /\ d.b = <<>> /\ d.s = to_string(9)}

WireWholes ==
    {w \in DepthWhole :
        w.asks \in WireRowLists /\ w.bids = <<>> /\ w.sequenceId = to_string(9)}

Event(room, data) == [kind |-> "event", room_name |-> room, data |-> data]

Events ==
    {Event(depth_diff_btc_jpy, d) : d \in WireDiffs}
    \cup {Event(depth_whole_btc_jpy, w) : w \in WireWholes}
    \cup {Event(transactions_btc_jpy, d) : d \in WireDiffs}
    \cup {Event(depth_diff_btc_jpy, w) : w \in WireWholes}

JsonValues == {SidObject} \cup Events

\* the JSON texts of the model, each with the value it is read as
JsonText == [v \in JsonValues |-> to_json(v)]

JsonRead ==
    [t \in {JsonText[v] : v \in JsonValues} |->
        CHOOSE v \in JsonValues : JsonText[v] = t]

\* serde_json::from_str::<serde_json::Value>
from_str(text) ==
    IF text \in DOMAIN JsonRead
    THEN [ok |-> TRUE, value |-> JsonRead[text]]
    ELSE [ok |-> FALSE]

(***************************************************************************)
(* The event closure of the order-book example: the message_handler.  It   *)
(* returns the DepthData it leaves and whether it panicked.                *)
(***************************************************************************)
starts_with(s, prefix) ==
    Len(s) >= Len(prefix) /\ SubSeq(s, 1, Len(prefix)) = prefix

closure(board, message) ==
    IF message.kind # "event"
    THEN \* message[1] is no SocketioMessageData: expect() panics
         [board |-> board, panic |-> TRUE]
    ELSE IF starts_with(message.room_name, "depth_diff")
    THEN IF IsDepthDiff(message.data)
         THEN [board |-> insert_diff(board, message.data), panic |-> FALSE]
         ELSE [board |-> board, panic |-> TRUE]
    ELSE IF starts_with(message.room_name, "depth_whole")
    THEN IF IsDepthWhole(message.data)
         THEN update_whole(board, message.data)
         ELSE [board |-> board, panic |-> TRUE]
    ELSE [board |-> board, panic |-> FALSE]

(***************************************************************************)
(* BitbankWebSocketHandler.  A WebSocketMessage is a record with its       *)
(* variant in `type`.  handle_message returns the frames to send, the      *)
(* DepthData the message_handler leaves, the number of calls of the        *)
(* message_handler, and whether the call panicked.                         *)
(***************************************************************************)
Text(t) == [type |-> "Text", data |-> t]

handle_start_silent == <<>>

\* handle_start
handle_start == <<Text("40")>>

Reply(frames, board) ==
    [sent |-> frames, board |-> board, sink_calls |-> 0, sink_args |-> <<>>,
     panic |-> FALSE]

Panic(board) ==
    [sent |-> <<>>, board |-> board, sink_calls |-> 0, sink_args |-> <<>>,
     panic |-> TRUE]

\* the pong packet
pong == "3"

engine_ping_silent(board) == Reply(<<>>, board)

\* '2': ping
engine_ping(board) == Reply(<<Text(pong)>>, board)

join_message_compact(channel) == "42[\"join-room\",\"" \o channel \o "\"]"

\* the join request of one channel
join_message(channel) == "42[\"join-room\", \"" \o channel \o "\"]"

join_messages(channels) == [i \in 1..Len(channels) |-> Text(join_message(channels[i]))]

socket_connect_unchecked(channels, board, message) ==
    Reply(join_messages(channels), board)

\* '4' '0': CONNECT
socket_connect(channels, board, message) ==
    IF from_str(Rest(message, 3)).ok
    THEN Reply(join_messages(channels), board)
    ELSE Reply(<<>>, board)

socket_event_silent(board, message) == Reply(<<>>, board)

\* '4' '2': EVENT
socket_event(board, message) ==
    LET parsed == from_str(Rest(message, 3))
    IN  IF parsed.ok
        THEN LET r == closure(board, parsed.value)
             IN  [sent |-> <<>>, board |-> r.board, sink_calls |-> 1,
                  sink_args |-> <<parsed.value>>, panic |-> r.panic]
        ELSE Reply(<<>>, board)

\* '4': message
engine_message(channels, board, message) ==
    IF Len(message) < 2 THEN Panic(board)   \* chars().nth(1).unwrap()
    ELSE LET socket_packet_type == CharAt(message, 2)
         IN  IF socket_packet_type = "0" THEN socket_connect(channels, board, message)
             ELSE IF socket_packet_type = "2" THEN socket_event(board, message)
             ELSE Reply(<<>>, board)

handle_text(channels, board, message) ==
    IF Len(message) < 1 THEN Panic(board)   \* chars().nth(0).unwrap()
    ELSE LET engine_packet_type == CharAt(message, 1)
         IN  IF engine_packet_type = "2" THEN engine_ping(board)
             ELSE IF engine_packet_type = "4"
             THEN engine_message(channels, board, message)
             ELSE \* '0' open, '1' close, anything else: logged
                  Reply(<<>>, board)

handle_message_absorbs(channels, board, message) ==
    IF message.type = "Text" THEN handle_text(channels, board, message.data)
    ELSE Reply(<<>>, board)

handle_message(channels, board, message) ==
    IF message.type = "Text" THEN handle_text(channels, board, message.data)
    ELSE \* Binary, Ping, Pong: assert!(false)
         Panic(board)

(***************************************************************************)
(* The inbound frames and the configurations of the model.                 *)
(***************************************************************************)
ControlTexts ==
    {"", "0", "0" \o to_json(SidObject), "1", "2", "2probe", "3", "3probe",
     "4", "40", "40" \o to_json(SidObject), "40x", "41", "42", "42x",
     "42" \o to_json(SidObject), "9"}

InboundTexts == ControlTexts \cup {"42" \o JsonText[e] : e \in Events}

InboundFrames ==
    {Text(t) : t \in InboundTexts}
    \cup {[type |-> "Binary"], [type |-> "Ping"], [type |-> "Pong"]}

Channels == {depth_diff_btc_jpy, depth_whole_btc_jpy}

ChannelLists == UNION {[1..n -> Channels] : n \in 0..MaxChannels}

(***************************************************************************)
(* The handler driven by the transport.  The transport calls handle_start  *)
(* on every new connection, handle_message on every frame received and     *)
(* handle_close when the connection ends; after a close with reconnect it  *)
(* connects again.                                                         *)
(***************************************************************************)
\* the transport opens a connection at the start and after a close with
\* reconnect
transport_connects == connection \in {"none", "reconnecting"}

\* the transport after handle_close(reconnect)
transport_closed(reconnect) == IF reconnect THEN "reconnecting" ELSE "closed"

\* a new connection: handle_start
HandleStart ==
    /\ ~panicked
    /\ transport_connects
    /\ connections < MaxConnections
    /\ connection' = "open"
    /\ connections' = connections + 1
    /\ sent' = handle_start
    /\ sink_calls' = 0
    /\ synced' = FALSE
    /\ last' = [op |-> "start"]
    /\ UNCHANGED <<book_vars, panicked, arrived, websocket_channels, response, request, dispatch_vars, bitbank_options>>

\* a frame received: handle_message, the message_handler included
HandleMessage(message) ==
    /\ ~panicked
    /\ connection = "open"
    /\ \E r \in {handle_message(websocket_channels, Board, message)} :
           /\ SetBoard(r.board)
           /\ sent' = r.sent
           /\ sink_calls' = r.sink_calls
           /\ panicked' = r.panic
           /\ synced' = (synced \/ (r.board.is_complete /\ ~r.panic
                                    /\ r.sink_calls = 1
                                    /\ starts_with(from_str(Rest(message.data, 3)).value.room_name,
                                                   "depth_whole")))
           /\ last' = [op |-> "message", arg |-> message,
                       sink_args |-> r.sink_args]
    /\ UNCHANGED <<arrived, websocket_channels, connection, connections, response, request, dispatch_vars, bitbank_options>>

\* the connection ended: handle_close only logs
HandleClose(reconnect) ==
    /\ ~panicked
    /\ connection = "open"
    /\ connection' = transport_closed(reconnect)
    /\ sent' = <<>>
    /\ sink_calls' = 0
    /\ last' = [op |-> "close", arg |-> reconnect]
    /\ UNCHANGED <<book_vars, panicked, arrived, websocket_channels, connections,
                   synced, response, request, dispatch_vars, bitbank_options>>

Init ==
    /\ diff_buffer = new.diff_buffer
    /\ asks = new.asks
    /\ bids = new.bids
    /\ is_complete = new.is_complete
    /\ panicked = FALSE
    /\ last = NoOp
    /\ arrived = EmptyMap
    /\ websocket_channels \in ChannelLists
    /\ connection = "none"
    /\ connections = 0
    /\ sent = <<>>
    /\ sink_calls = 0
    /\ synced = FALSE
    /\ response = [kind |-> "none"]
    /\ request = [kind |-> "none"]
    /\ inbox = <<>>
    /\ callback = [running |-> FALSE]
    /\ bitbank_options = [kind |-> "none"]

Next ==
    \/ HandleStart
    \/ \E message \in InboundFrames : HandleMessage(message)
    \/ \E reconnect \in BOOLEAN : HandleClose(reconnect)

Spec == Init /\ [][Next]_vars

(***************************************************************************)
(* BitbankRequestHandler::handle_response.  The response body is a text;   *)
(* body_from_slice reads back the texts body_json writes and rejects every *)
(* other body of the model.  R, the type the caller asks for, is           *)
(* serde_json::Value ("Value": every JSON value deserializes) or a struct  *)
(* with the fields of a success envelope ("Typed": success and data, as    *)
(* Ticker of the public HTTP example).                                     *)
(***************************************************************************)
\* the code of a failure envelope that denotes rate-limit-exceeded
RateLimitCode == 10009

ErrorCodes == {RateLimitCode, 20001, 70009}

Failure(code) == [success |-> 0, code |-> code]

Success == [success |-> 1, data |-> "assets"]

BodyValues == {Success, [error |-> "gateway"]} \cup {Failure(c) : c \in ErrorCodes}

body_json(v) ==
    IF "success" \notin DOMAIN v THEN "{\"error\":\"gateway\"}"
    ELSE IF v.success = 0 THEN "{\"success\":0,\"code\":" \o to_string(v.code) \o "}"
    ELSE "{\"success\":1,\"data\":{\"assets\":[]}}"

BodyText == [v \in BodyValues |-> body_json(v)]

Bodies == {BodyText[v] : v \in BodyValues} \cup {"", "<html>502</html>"}

BodyRead ==
    [t \in {BodyText[v] : v \in BodyValues} |->
        CHOOSE v \in BodyValues : BodyText[v] = t]

\* serde_json::from_slice::<serde_json::Value>
body_from_slice(body) ==
    IF body \in DOMAIN BodyRead
    THEN [ok |-> TRUE, value |-> BodyRead[body]]
    ELSE [ok |-> FALSE]

ResponseTypes == {"Value", "Typed"}

\* serde_json::from_slice::<R>
from_slice_as(R, body) ==
    LET parsed == body_from_slice(body)
    IN  IF ~parsed.ok THEN [ok |-> FALSE]
        ELSE IF R = "Typed" /\ DOMAIN parsed.value # {"success", "data"}
        THEN [ok |-> FALSE]
        ELSE parsed

Statuses == {200, 201, 204, 400, 401, 404, 429, 500, 503}

is_success_any(status) == status < 600

\* StatusCode::is_success
is_success(status) == 200 <= status /\ status < 300

Ok(value) == [ok |-> TRUE, value |-> value]

ApiError(value) == [ok |-> FALSE, error |-> "ApiError", payload |-> value]

ParseError == [ok |-> FALSE, error |-> "ParseError"]

\* res_val["success"].as_i64() == Some(0)
success_is_zero(res_val) == "success" \in DOMAIN res_val /\ res_val.success = 0

handle_response(R, status, response_body) ==
    IF is_success(status)
    THEN LET res == from_slice_as(R, response_body)
         IN  IF ~res.ok THEN ParseError
             ELSE LET res_val == body_from_slice(response_body).value
                  IN  IF success_is_zero(res_val) THEN ApiError(res_val)
                      ELSE Ok(res.value)
    ELSE LET parsed_error == body_from_slice(response_body)
         IN  IF parsed_error.ok THEN ApiError(parsed_error.value) ELSE ParseError

HandleResponse(R, status, response_body) ==
    /\ response' = [kind |-> "response", R |-> R, status |-> status,
                    body |-> response_body,
                    result |-> handle_response(R, status, response_body)]
    /\ last' = [op |-> "response"]
    /\ UNCHANGED <<book_vars, panicked, arrived, ws_vars, request, dispatch_vars, bitbank_options>>

InitHttp == InitBook

NextHttp ==
    \E R \in ResponseTypes, status \in Statuses, response_body \in Bodies :
        HandleResponse(R, status, response_body)

SpecHttp == InitHttp /\ [][NextHttp]_vars

(***************************************************************************)
(* BitbankRequestHandler::build_request.  An Option is a sequence of at    *)
(* most one element.  The request is a record of the url's path and query, *)
(* the headers and the body; HMAC-SHA256 and the hex encoding are kept as  *)
(* the pair of the key and the message they are computed from.             *)
(***************************************************************************)
\* distinct clock readings, in milliseconds since the epoch
NumTimes == 2
\* distinct API secrets
NumSecrets == 2

None == <<>>

Some(v) == <<v>>

is_some(option) == option # None

unwrap(option) == option[1]

Times == {1000 * i + 1 : i \in 0..(NumTimes - 1)}

Secrets == {None} \cup {Some("secret" \o to_string(i)) : i \in 1..NumSecrets}

\* no key, a key, and a key with a character no header value may hold
Keys == {None, Some("key"), Some("k\ney")}

Options == [http_auth : BOOLEAN, key : Keys, secret : Secrets]

Paths == {"/v1/user/assets", "/v1/user/spot/order"}

Queries == {None, Some("pair=btc_jpy")}

\* the RequestBuilder handed to build_request: a url, no headers and no
\* body yet, or a builder whose build() fails
Builders ==
    [path : Paths, query : Queries, headers : {EmptyMap}, body : {None},
     error : {FALSE}]
    \cup {[path |-> "", query |-> None, headers |-> EmptyMap, body |-> None,
           error |-> TRUE]}

\* request bodies B: an order, the empty string, and a value serde_json
\* cannot write (a map whose keys are not strings)
RequestBodies ==
    {None,
     Some([kind |-> "order", pair |-> "btc_jpy", amount |-> "1"]),
     Some([kind |-> "str", value |-> ""]),
     Some([kind |-> "map", key_type |-> "tuple"])}

BuildError(message) == [ok |-> FALSE, error |-> message]

\* serde_json::to_string(&body)
json_to_string(body) ==
    IF body.kind = "order"
    THEN Ok("{\"pair\":\"" \o body.pair \o "\",\"amount\":\"" \o body.amount \o "\"}")
    ELSE IF body.kind = "str" THEN Ok("\"" \o body.value \o "\"")
    ELSE [ok |-> FALSE]

\* if let Some(body) = request_body { ... }
set_body(builder, request_body) ==
    IF ~is_some(request_body) THEN Ok(builder)
    ELSE LET encoded == json_to_string(unwrap(request_body))
         IN  IF ~encoded.ok
             THEN BuildError("Could not serialize body as application/x-www-form-urlencoded")
             ELSE Ok([builder EXCEPT
                        !.headers = MapInsert(@, "content-type", "application/json"),
                        !.body = Some(encoded.value)])

\* builder.build()
build(builder) ==
    IF builder.error THEN BuildError("failed to build request")
    ELSE Ok([path |-> builder.path, query |-> builder.query,
             headers |-> builder.headers, body |-> builder.body])

\* request.url().path(), with '?' and the query when there is one
path_and_query(req) ==
    IF is_some(req.query) THEN req.path \o "?" \o unwrap(req.query) ELSE req.path

\* request.body() as text, the empty text when there is none
body_text(req) == IF is_some(req.body) THEN unwrap(req.body) ELSE ""

access_time_window == 1000

sign_latter_path_only(path, body) == path

\* GET: the path; POST: the body
sign_latter(path, body) == IF body = "" THEN path ELSE body

sign_content_swapped(access_request_time, window, latter) ==
    to_string(window) \o to_string(access_request_time) \o latter

sign_content_untimed(access_request_time, window, latter) ==
    to_string(window) \o latter

\* format!("{}{}{}", access_request_time, access_time_window, sign_latter)
sign_content(access_request_time, window, latter) ==
    to_string(access_request_time) \o to_string(window) \o latter

\* hex::encode of the HMAC-SHA256 of `message` under `key`
hmac_sha256_hex(key, message) == [key |-> key, message |-> message]

\* HeaderValue::from_str accepts the text
header_value_ok(text) == \A i \in 1..Len(text) : CharAt(text, i) # "\n"

authenticate_partial(options, req, access_request_time) ==
    Ok([req EXCEPT !.headers =
        [h \in (DOMAIN @) \cup {"ACCESS-REQUEST-TIME", "ACCESS-TIME-WINDOW"} |->
            IF h = "ACCESS-REQUEST-TIME" THEN to_string(access_request_time)
            ELSE IF h = "ACCESS-TIME-WINDOW" THEN to_string(access_time_window)
            ELSE @[h]]])

\* the body of `if self.options.http_auth`
authenticate(options, req, access_request_time) ==
    LET content == sign_content(access_request_time, access_time_window,
                                sign_latter(path_and_query(req), body_text(req)))
    IN  IF ~is_some(options.secret) THEN BuildError("API secret not found")
        ELSE IF ~is_some(options.key) THEN BuildError("API key not found")
        ELSE IF ~header_value_ok(unwrap(options.key))
        THEN BuildError("invalid character in API key")
        ELSE Ok([req EXCEPT !.headers =
                [h \in (DOMAIN @) \cup {"ACCESS-KEY", "ACCESS-REQUEST-TIME",
                                        "ACCESS-TIME-WINDOW", "ACCESS-SIGNATURE"} |->
                    IF h = "ACCESS-KEY" THEN unwrap(options.key)
                    ELSE IF h = "ACCESS-REQUEST-TIME" THEN to_string(access_request_time)
                    ELSE IF h = "ACCESS-TIME-WINDOW" THEN to_string(access_time_window)
                    ELSE IF h = "ACCESS-SIGNATURE"
                    THEN hmac_sha256_hex(unwrap(options.secret), content)
                    ELSE @[h]]])

build_request(options, builder, request_body, now) ==
    LET with_body == set_body(builder, request_body)
    IN  IF ~with_body.ok THEN with_body
        ELSE LET built == build(with_body.value)
             IN  IF ~built.ok THEN built
                 ELSE IF options.http_auth
                 THEN authenticate(options, built.value, now)
                 ELSE Ok(built.value)

BuildRequest(options, builder, request_body, now) ==
    /\ request' = [kind |-> "build", options |-> options, builder |-> builder,
                   request_body |-> request_body, now |-> now,
                   result |-> build_request(options, builder, request_body, now)]
    /\ last' = [op |-> "build"]
    /\ UNCHANGED <<book_vars, panicked, arrived, ws_vars, response, dispatch_vars, bitbank_options>>

InitSign == InitBook

NextSign ==
    \E options \in Options, builder \in Builders,
       request_body \in RequestBodies, now \in Times :
        BuildRequest(options, builder, request_body, now)

SpecSign == InitSign /\ [][NextSign]_vars

(***************************************************************************)
(* handle_message with the message_handler as a step of its own.  The      *)
(* transport queues the frames it receives and hands them to               *)
(* handle_message one at a time, in order; handle_message takes the        *)
(* handler by `&mut self` and calls the message_handler inside the         *)
(* '4' '2' arm, so the next frame is handled only after the                *)
(* message_handler has returned.                                           *)
(***************************************************************************)
\* frames received and not yet handled
MaxInbox == 2

\* the frames of this specification: the ping and the event frames
DispatchFrames == {Text("2")} \cup {Text("42" \o JsonText[e]) : e \in Events}

\* the transport receives a frame
Receive(frame) ==
    /\ ~panicked
    /\ Len(inbox) < MaxInbox
    /\ inbox' = Append(inbox, frame)
    /\ UNCHANGED <<book_vars, panicked, last, arrived, ws_vars, response, request,
                   callback, bitbank_options>>

\* handle_message on the next frame, up to the call of the message_handler
EnterCallback ==
    /\ ~panicked
    /\ ~callback.running
    /\ inbox # <<>>
    /\ \E r \in {handle_message(websocket_channels, Board, Head(inbox))} :
           /\ r.sink_calls = 1
           /\ callback' = [running |-> TRUE, message |-> Head(inbox), result |-> r]
    /\ inbox' = Tail(inbox)
    /\ last' = [op |-> "call", arg |-> Head(inbox)]
    /\ UNCHANGED <<book_vars, panicked, arrived, ws_vars, response, request,
                   bitbank_options>>

\* the message_handler returns (or panics) and handle_message with it
CallbackReturns ==
    /\ ~panicked
    /\ callback.running
    /\ SetBoard(callback.result.board)
    /\ sent' = callback.result.sent
    /\ sink_calls' = callback.result.sink_calls
    /\ panicked' = callback.result.panic
    /\ callback' = [running |-> FALSE]
    /\ last' = [op |-> "message", arg |-> callback.message,
                sink_args |-> callback.result.sink_args]
    /\ UNCHANGED <<arrived, websocket_channels, connection, connections, synced,
                   response, request, inbox, bitbank_options>>

\* handle_message on the next frame when it does not call the message_handler
HandleDirectly ==
    /\ ~panicked
    /\ ~callback.running
    /\ inbox # <<>>
    /\ \E r \in {handle_message(websocket_channels, Board, Head(inbox))} :
           /\ r.sink_calls = 0
           /\ SetBoard(r.board)
           /\ sent' = r.sent
           /\ sink_calls' = 0
           /\ panicked' = r.panic
           /\ last' = [op |-> "message", arg |-> Head(inbox),
                       sink_args |-> r.sink_args]
    /\ inbox' = Tail(inbox)
    /\ UNCHANGED <<arrived, websocket_channels, connection, connections, synced,
                   response, request, callback, bitbank_options>>

InitDispatch ==
    /\ diff_buffer = new.diff_buffer
    /\ asks = new.asks
    /\ bids = new.bids
    /\ is_complete = new.is_complete
    /\ panicked = FALSE
    /\ last = [op |-> "start"]
    /\ arrived = EmptyMap
    /\ websocket_channels = <<depth_diff_btc_jpy, depth_whole_btc_jpy>>
    /\ connection = "open"
    /\ connections = 1
    /\ sent = handle_start
    /\ sink_calls = 0
    /\ synced = FALSE
    /\ response = [kind |-> "none"]
    /\ request = [kind |-> "none"]
    /\ inbox = <<>>
    /\ callback = [running |-> FALSE]
    /\ bitbank_options = [kind |-> "none"]

NextDispatch ==
    \/ \E frame \in DispatchFrames : Receive(frame)
    \/ EnterCallback
    \/ CallbackReturns
    \/ HandleDirectly

SpecDispatch == InitDispatch /\ [][NextDispatch]_vars

(***************************************************************************)
(* BitbankOptions: Default::default and HandlerOptions::update.            *)
(***************************************************************************)
\* WebSocketConfig::new() and WebSocketConfig::default(): of the fields,
\* the flag; `flag` is the value the library gives it
WebSocketConfig_new(flag) == [ignore_duplicate_during_reconnection |-> flag]

WebSocketConfig_default(flag) == WebSocketConfig_new(flag)

\* the values the library may give the flag of a new WebSocketConfig
LibraryFlags == BOOLEAN

\* let mut websocket_config = WebSocketConfig::new();
\* websocket_config.ignore_duplicate_during_reconnection = true;
local_websocket_config(flag) ==
    [WebSocketConfig_new(flag) EXCEPT !.ignore_duplicate_during_reconnection = TRUE]

\* impl Default for BitbankOptions: the local websocket_config is not used
default_options(flag) ==
    LET websocket_config == local_websocket_config(flag)
    IN  [kind |-> "options", key |-> None, secret |-> None, http_url |-> "None",
         http_auth |-> FALSE, request_config |-> "default",
         websocket_url |-> "Default", websocket_channels |-> <<>>,
         websocket_config |-> WebSocketConfig_default(flag)]

\* enum BitbankOption
BitbankOption ==
    {[item |-> "Default"]}
    \cup {[item |-> "Key", key |-> k[1]] : k \in Keys \ {None}}
    \cup {[item |-> "Secret", secret |-> x[1]] : x \in Secrets \ {None}}
    \cup {[item |-> "HttpUrl", http_url |-> u] : u \in {"Private", "Public", "None"}}
    \cup {[item |-> "HttpAuth", http_auth |-> b] : b \in BOOLEAN}
    \cup {[item |-> "RequestConfig", request_config |-> "custom"]}
    \cup {[item |-> "WebSocketUrl", websocket_url |-> u] : u \in {"Default", "None"}}
    \cup {[item |-> "WebSocketChannels", websocket_channels |-> c] : c \in ChannelLists}
    \cup {[item |-> "WebSocketConfig", websocket_config |-> WebSocketConfig_new(b)] :
            b \in BOOLEAN}

\* HandlerOptions::update
update(self, option) ==
    IF option.item = "Default" THEN self
    ELSE IF option.item = "Key" THEN [self EXCEPT !.key = Some(option.key)]
    ELSE IF option.item = "Secret" THEN [self EXCEPT !.secret = Some(option.secret)]
    ELSE IF option.item = "HttpUrl" THEN [self EXCEPT !.http_url = option.http_url]
    ELSE IF option.item = "HttpAuth" THEN [self EXCEPT !.http_auth = option.http_auth]
    ELSE IF option.item = "RequestConfig"
    THEN [self EXCEPT !.request_config = option.request_config]
    ELSE IF option.item = "WebSocketUrl"
    THEN [self EXCEPT !.websocket_url = option.websocket_url]
    ELSE IF option.item = "WebSocketChannels"
    THEN [self EXCEPT !.websocket_channels = option.websocket_channels]
    ELSE [self EXCEPT !.websocket_config = option.websocket_config]

\* BitbankOptions::default()
DefaultOptions(flag) ==
    /\ bitbank_options.kind = "none"
    /\ bitbank_options' = default_options(flag)
    /\ last' = [op |-> "default"]
    /\ UNCHANGED <<book_vars, panicked, arrived, ws_vars, response, request,
                   dispatch_vars>>

\* options.update(option)
UpdateOptions(option) ==
    /\ bitbank_options.kind = "options"
    /\ bitbank_options' = update(bitbank_options, option)
    /\ last' = [op |-> "update", arg |-> option.item]
    /\ UNCHANGED <<book_vars, panicked, arrived, ws_vars, response, request,
                   dispatch_vars>>

InitOptions == InitBook

NextOptions ==
    \/ \E flag \in LibraryFlags : DefaultOptions(flag)
    \/ \E option \in BitbankOption : UpdateOptions(option)

SpecOptions == InitOptions /\ [][NextOptions]_vars

(***************************************************************************)
(* The reference result of the reconciliation: drop the diffs whose        *)
(* sequence is numerically before the snapshot's, install the snapshot,    *)
(* apply the others in ascending numeric order.                            *)
(***************************************************************************)
NumLess(a, b) == ParseNum(a) < ParseNum(b)

RECURSIVE NumericOrder(_)
NumericOrder(S) ==
    IF S = {} THEN <<>>
    ELSE LET k == CHOOSE x \in S : \A o \in S \ {x} : NumLess(x, o)
         IN  <<k>> \o NumericOrder(S \ {k})

RefRow(side, row) ==
    IF ParseNum(row[2]) = 0 THEN [p \in (DOMAIN side) \ {row[1]} |-> side[p]]
    ELSE [p \in (DOMAIN side) \cup {row[1]} |->
            IF p = row[1] THEN ParseNum(row[2]) ELSE side[p]]

RECURSIVE RefRows(_, _)
RefRows(side, rows) ==
    IF rows = <<>> THEN side ELSE RefRows(RefRow(side, Head(rows)), Tail(rows))

RECURSIVE RefReplay(_, _, _)
RefReplay(book, diffs, keys) ==
    IF keys = <<>> THEN book
    ELSE RefReplay([asks |-> RefRows(book.asks, diffs[Head(keys)].a),
                    bids |-> RefRows(book.bids, diffs[Head(keys)].b)],
                   diffs, Tail(keys))

Reference(diffs, whole) ==
    RefReplay([asks |-> RefRows(EmptyMap, whole.asks),
               bids |-> RefRows(EmptyMap, whole.bids)],
              diffs,
              NumericOrder({k \in DOMAIN diffs : ~NumLess(k, whole.sequenceId)}))

Book == [asks |-> asks, bids |-> bids]

\* the snapshot has been processed to its end
SnapshotDone == last.op = "whole" /\ ~panicked

(***************************************************************************)
(* C1: for every set of diffs and every order in which they arrive before  *)
(* the one snapshot, the book after the snapshot is the reference result   *)
(* (drop the diffs before the snapshot's sequence, install the snapshot,   *)
(* apply the remaining diffs once each in ascending sequence order).       *)
(***************************************************************************)
C1_BookIsReference == SnapshotDone => Book = Reference(arrived, last.arg)

(***************************************************************************)
(* C2: while is_complete is false, on_diff(d) only stores d in the buffer  *)
(* under d.s, replacing an entry of the same key, and leaves asks and bids *)
(* unchanged.                                                              *)
(***************************************************************************)
C2_DiffIsBuffered ==
    [][(~is_complete /\ last'.op = "diff")
        => /\ asks' = asks
           /\ bids' = bids
           /\ diff_buffer' = MapInsert(diff_buffer, last'.arg.s, last'.arg)]_vars

C4_ResetOnReconnect ==
    (connection = "open" /\ connections >= 2 /\ ~synced)
        => (~is_complete /\ diff_buffer = EmptyMap)

\* the last call was handle_message on a text frame that starts with `prefix`
Handled(prefix) ==
    /\ last.op = "message"
    /\ last.arg.type = "Text"
    /\ starts_with(last.arg.data, prefix)

\* ... on a connect-ack whose payload is JSON
ConnectAckValid == Handled("40") /\ from_str(Rest(last.arg.data, 3)).ok

(***************************************************************************)
(* C5 as stated: the join request of channel c is exactly the text         *)
(* 42["join-room","c"], nothing between the array elements.                *)
(***************************************************************************)
C5_JoinTextCompact ==
    ConnectAckValid =>
        \A i \in 1..Len(sent) :
            sent[i] = Text("42[\"join-room\",\"" \o websocket_channels[i] \o "\"]")

(***************************************************************************)
(* C5 as amended: the join request of channel c is exactly the text        *)
(* 42["join-room", "c"], one space after the comma; for                   *)
(* depth_whole_btc_jpy it is 42["join-room", "depth_whole_btc_jpy"].       *)
(***************************************************************************)
C5_JoinTextSpaced ==
    ConnectAckValid =>
        /\ Len(sent) = Len(websocket_channels)
        /\ \A i \in 1..Len(sent) :
            /\ sent[i].type = "Text"
            /\ sent[i].data = "42[\"join-room\", \"" \o websocket_channels[i] \o "\"]"
            /\ Len(sent[i].data) = Len(websocket_channels[i]) + 19
            /\ websocket_channels[i] = "depth_whole_btc_jpy"
                => sent[i].data = "42[\"join-room\", \"depth_whole_btc_jpy\"]"

C5_Witness ==
    /\ ConnectAckValid
    /\ \E i \in 1..Len(sent) : websocket_channels[i] = "depth_whole_btc_jpy"

\* a join request of channel c, with or without the space JSON allows
IsJoinRequest(frame, c) ==
    /\ frame.type = "Text"
    /\ frame.data \in {"42[\"join-room\",\"" \o c \o "\"]",
                       "42[\"join-room\", \"" \o c \o "\"]"}

JoinsAllChannels ==
    /\ Len(sent) = Len(websocket_channels)
    /\ \A i \in 1..Len(sent) : IsJoinRequest(sent[i], websocket_channels[i])

(***************************************************************************)
(* C6 as stated: every connect-ack frame (outer tag 4, inner tag 0) makes  *)
(* handle_message return one join request per configured channel, in the   *)
(* configured order, and nothing else.                                     *)
(***************************************************************************)
C6_EveryConnectAckJoins == Handled("40") => JoinsAllChannels

(***************************************************************************)
(* C6 as amended: every connect-ack frame whose payload is JSON makes      *)
(* handle_message return one join request per configured channel, in the   *)
(* configured order, and nothing else, on the first connection and on      *)
(* every later one; a connect-ack whose payload is not JSON returns no     *)
(* frame; no step changes the configured channel list.                     *)
(***************************************************************************)
C6_ValidConnectAckJoins ==
    /\ [](ConnectAckValid => (JoinsAllChannels /\ sink_calls = 0 /\ ~panicked))
    /\ []((Handled("40") /\ ~ConnectAckValid) => sent = <<>>)
    /\ [][websocket_channels' = websocket_channels]_vars

C6_Witness ==
    /\ ConnectAckValid
    /\ connections >= 2
    /\ Len(websocket_channels) >= 2
    /\ websocket_channels[1] # websocket_channels[2]

(***************************************************************************)
(* C7: handle_message on the text frame "2" returns exactly one frame, the *)
(* text "3", and does not invoke the message_handler.                      *)
(***************************************************************************)
C7_PingPong ==
    (last.op = "message" /\ last.arg = Text("2"))
        => (sent = <<Text("3")>> /\ sink_calls = 0 /\ ~panicked)

C7_Witness == last.op = "message" /\ last.arg = Text("2") /\ is_complete

\* a text frame the protocol does not define: empty, an unknown outer or
\* inner tag, a message frame without inner tag, a payload that is not JSON
Malformed(t) ==
    \/ Len(t) = 0
    \/ CharAt(t, 1) \notin {"0", "1", "2", "4"}
    \/ CharAt(t, 1) = "0" /\ ~from_str(Rest(t, 2)).ok
    \/ /\ CharAt(t, 1) = "4"
       /\ \/ Len(t) < 2
          \/ CharAt(t, 2) \notin {"0", "2"}
          \/ ~from_str(Rest(t, 3)).ok

(***************************************************************************)
(* C8: handle_message drops every malformed text frame (an empty text, a   *)
(* bare "4", an unknown tag, a payload that is not JSON) and returns       *)
(* normally: no panic, no frame sent, no event forwarded.                  *)
(***************************************************************************)
C8_MalformedDropped ==
    (last.op = "message" /\ last.arg.type = "Text" /\ Malformed(last.arg.data))
        => (~panicked /\ sent = <<>> /\ sink_calls = 0)

\* handle_response has answered a body that is a failure envelope
FailureAnswered ==
    /\ response.kind = "response"
    /\ body_from_slice(response.body).ok
    /\ success_is_zero(body_from_slice(response.body).value)

(***************************************************************************)
(* C9: for a failure envelope whose code is the rate-limit code,           *)
(* handle_response returns the rate-limit error, not the generic ApiError. *)
(***************************************************************************)
C9_RateLimitDistinguished ==
    (FailureAnswered /\ body_from_slice(response.body).value.code = RateLimitCode)
        => (~response.result.ok /\ response.result.error = "ReuqestLimitExceeded")

(***************************************************************************)
(* C10: for a body that is a failure envelope (success = 0),               *)
(* handle_response returns ApiError with the parsed body, whatever the     *)
(* HTTP status and whether or not the body deserializes as R.              *)
(***************************************************************************)
C10_FailureIsApiError ==
    FailureAnswered
        => response.result = ApiError(body_from_slice(response.body).value)

(***************************************************************************)
(* Helpers of the claims on the view and on the levels of the book.        *)
(***************************************************************************)
Range(seq) == {seq[i] : i \in 1..Len(seq)}

NumAscending(ps) == \A i \in 1..(Len(ps) - 1) : NumLess(ps[i], ps[i + 1])

NumDescending(ps) == \A i \in 1..(Len(ps) - 1) : NumLess(ps[i + 1], ps[i])

\* the n numerically lowest prices of S
LowestPrices(S, n) == {p \in S : Cardinality({q \in S : NumLess(q, p)}) < n}

\* the n numerically highest prices of S
HighestPrices(S, n) == {p \in S : Cardinality({q \in S : NumLess(p, q)}) < n}

\* the view of a complete book has been written
Viewed == last.op = "fmt" /\ ~panicked

(***************************************************************************)
(* C11: the view of a complete book shows, per side, the best levels in    *)
(* numeric price order: the asks shown are the numerically lowest asks in  *)
(* ascending numeric order, the bids shown are the numerically highest     *)
(* bids in descending numeric order, also for prices of different lengths  *)
(* ("9" and "10").                                                         *)
(***************************************************************************)
C11_ViewInNumericOrder ==
    Viewed =>
        /\ Range(last.out.asks) = LowestPrices(DOMAIN asks, DisplayDepth)
        /\ NumAscending(last.out.asks)
        /\ Range(last.out.bids) = HighestPrices(DOMAIN bids, DisplayDepth)
        /\ NumDescending(last.out.bids)

\* a row of `rows` has the amount zero
HasZeroRow(rows) == \E i \in 1..Len(rows) : ParseNum(rows[i][2]) = 0

(***************************************************************************)
(* C12: in every state reached by on_diff and on_snapshot calls neither    *)
(* asks nor bids holds a price level whose quantity is zero.               *)
(***************************************************************************)
C12_NoZeroLevel ==
    /\ \A p \in DOMAIN asks : asks[p] # 0
    /\ \A p \in DOMAIN bids : bids[p] # 0

C12_Witness ==
    /\ last.op = "diff"
    /\ is_complete
    /\ HasZeroRow(last.arg.a)
    /\ last.before.asks # EmptyMap
    /\ bids # EmptyMap

\* the indices of the rows of `rows` at price p
RowsAt(rows, p) == {i \in 1..Len(rows) : rows[i][1] = p}

Max(S) == CHOOSE m \in S : \A o \in S : o <= m

\* `after` is `side` with the rows applied: a price without a row keeps its
\* level or its absence, a price with rows follows the last of them, absent
\* for the quantity zero and set to the quantity otherwise
RowsApplied(side, after, rows) ==
    /\ DOMAIN after \subseteq Prices
    /\ \A p \in Prices :
        IF RowsAt(rows, p) = {}
        THEN /\ (p \in DOMAIN after) = (p \in DOMAIN side)
             /\ p \in DOMAIN side => after[p] = side[p]
        ELSE LET quantity == ParseNum(rows[Max(RowsAt(rows, p))][2])
             IN  IF quantity = 0 THEN p \notin DOMAIN after
                 ELSE p \in DOMAIN after /\ after[p] = quantity

(***************************************************************************)
(* C13: a diff applied to the book removes the level of a row with         *)
(* quantity zero when it is present and changes nothing when it is absent, *)
(* and sets the level of a row with a nonzero quantity to that quantity;   *)
(* every other level is left as it was.                                    *)
(***************************************************************************)
C13_DiffRowSemantics ==
    last.op = "diff" =>
        /\ RowsApplied(last.before.asks, asks, last.arg.a)
        /\ RowsApplied(last.before.bids, bids, last.arg.b)
        /\ ~panicked

C13_Witness ==
    /\ last.op = "diff"
    /\ \E i \in 1..Len(last.arg.a) :
        /\ ParseNum(last.arg.a[i][2]) = 0
        /\ last.arg.a[i][1] \in DOMAIN last.before.asks
        /\ last.arg.a[i][1] \notin DOMAIN asks
    /\ \E i \in 1..Len(last.arg.b) :
        /\ ParseNum(last.arg.b[i][2]) = 0
        /\ last.arg.b[i][1] \notin DOMAIN last.before.bids
        /\ last.before.bids # EmptyMap
        /\ bids = last.before.bids

(***************************************************************************)
(* C14: the same snapshot applied twice in a row, no diff in between,      *)
(* leaves after the second application exactly the asks, bids, buffer and  *)
(* complete flag the first application left.                               *)
(***************************************************************************)
C14_SnapshotIdempotent ==
    (last.op = "whole" /\ last.repeated) => (Board = last.before /\ ~panicked)

C14_Witness ==
    /\ last.op = "whole"
    /\ last.repeated
    /\ last.arg.asks # <<>>
    /\ last.arg.bids # <<>>
    /\ is_complete

(***************************************************************************)
(* C15: on_snapshot of a snapshot with a zero-quantity row on either side  *)
(* fails fatally: the call panics before the replay and leaves the         *)
(* complete flag as it found it (it does not set it).                      *)
(***************************************************************************)
C15_ZeroRowIsFatal ==
    (last.op = "whole" /\ (HasZeroRow(last.arg.asks) \/ HasZeroRow(last.arg.bids)))
        => (panicked /\ is_complete = last.before.is_complete)

C15_Witness ==
    /\ last.op = "whole"
    /\ ~HasZeroRow(last.arg.asks)
    /\ last.arg.asks # <<>>
    /\ HasZeroRow(last.arg.bids)
    /\ panicked
    /\ ~is_complete

(***************************************************************************)
(* C16: is_complete is false from DepthData::new until the first           *)
(* on_snapshot completes: only an on_snapshot that runs to its end turns   *)
(* it true, and at that moment the diff buffer is empty.                   *)
(***************************************************************************)
C16_CompleteOnlyBySnapshot ==
    /\ last.op = "none" => ~is_complete
    /\ (last.op # "none" /\ is_complete /\ ~last.before.is_complete)
        => (last.op = "whole" /\ ~panicked /\ diff_buffer = EmptyMap)

C16_Witness ==
    /\ last.op = "whole"
    /\ is_complete
    /\ ~last.before.is_complete
    /\ last.before.asks # EmptyMap
    /\ last.arg.bids # <<>>

\* the last row of `rows` at price p has the quantity zero
Zeroes(rows, p) ==
    /\ RowsAt(rows, p) # {}
    /\ ParseNum(rows[Max(RowsAt(rows, p))][2]) = 0

(***************************************************************************)
(* C17: of the diffs received before the snapshot, those whose sequence is *)
(* before the snapshot's have no effect on the book on_snapshot leaves,    *)
(* and one whose sequence is after the snapshot's and that zeroes an ask   *)
(* present in the snapshot (no other diff touching that price) leaves the  *)
(* ask absent: snapshot 100 with ask 10, diffs 99 and 101 zeroing ask 10,  *)
(* final asks empty.                                                       *)
(***************************************************************************)
C17_LaterZeroWins ==
    SnapshotDone =>
        LET seq == last.arg.sequenceId
            snapshot == [asks |-> RefRows(EmptyMap, last.arg.asks),
                         bids |-> RefRows(EmptyMap, last.arg.bids)]
        IN  /\ (\A k \in DOMAIN arrived : NumLess(k, seq)) => Book = snapshot
            /\ \A k \in DOMAIN arrived, p \in DOMAIN snapshot.asks :
                (/\ NumLess(seq, k)
                 /\ Zeroes(arrived[k].a, p)
                 /\ \A j \in (DOMAIN arrived) \ {k} : RowsAt(arrived[j].a, p) = {})
                    => p \notin DOMAIN asks

(***************************************************************************)
(* Helpers of the claims on the signature.                                 *)
(***************************************************************************)
\* build_request has returned a request with authentication switched on
Signed == request.kind = "build" /\ request.options.http_auth /\ request.result.ok

Headers == request.result.value.headers

\* the text the signature was computed from, and the key it was computed under
SignedText == Headers["ACCESS-SIGNATURE"].message

SigningKey == Headers["ACCESS-SIGNATURE"].key

\* path, or path?query, of the url the call was given
PathAndQuery(builder) ==
    IF builder.query = None THEN builder.path
    ELSE builder.path \o "?" \o builder.query[1]

\* the text that follows the timestamp and the window in the signed text
SignedTail ==
    Rest(SignedText,
         Len(Headers["ACCESS-REQUEST-TIME"]) + Len(Headers["ACCESS-TIME-WINDOW"]) + 1)

(***************************************************************************)
(* C18: what build_request signs after the timestamp and the window is     *)
(* exactly one of two texts: the serialized JSON body when the request has *)
(* a body, and the path, with '?' and the query when there is a query,     *)
(* when it has none; never both and never neither.                         *)
(***************************************************************************)
C18_BodyOrPath ==
    Signed =>
        /\ SignedTail # ""
        /\ IF request.request_body # None
           THEN /\ request.result.value.body # None
                /\ SignedTail = request.result.value.body[1]
                /\ SignedTail = json_to_string(request.request_body[1]).value
           ELSE /\ request.result.value.body = None
                /\ SignedTail = PathAndQuery(request.builder)

C18_Witness ==
    /\ Signed
    /\ request.request_body # None
    /\ request.builder.query # None
    /\ SignedTail = "{\"pair\":\"btc_jpy\",\"amount\":\"1\"}"

\* the call asks for authentication and nothing stops the request from
\* being built and signed
Authenticated ==
    /\ request.kind = "build"
    /\ request.options.http_auth
    /\ request.options.key # None
    /\ header_value_ok(request.options.key[1])
    /\ request.options.secret # None
    /\ ~request.builder.error
    /\ request.request_body # None => json_to_string(request.request_body[1]).ok

(***************************************************************************)
(* C19: every authenticated request is signed over the decimal timestamp   *)
(* in milliseconds, then the window, then the path-or-body, with nothing   *)
(* between them, and carries ACCESS-KEY, ACCESS-REQUEST-TIME,              *)
(* ACCESS-TIME-WINDOW and ACCESS-SIGNATURE: the timestamp and window       *)
(* headers hold the values that were signed, the signature is the hex      *)
(* HMAC-SHA256 of the signed text under the secret.                        *)
(***************************************************************************)
C19_SignedTextAndHeaders ==
    /\ Authenticated => Signed
    /\ Signed =>
        /\ {"ACCESS-KEY", "ACCESS-REQUEST-TIME", "ACCESS-TIME-WINDOW",
            "ACCESS-SIGNATURE"} \subseteq DOMAIN Headers
        /\ Headers["ACCESS-KEY"] = request.options.key[1]
        /\ Headers["ACCESS-REQUEST-TIME"] = to_string(request.now)
        /\ ParseNum(Headers["ACCESS-REQUEST-TIME"]) = request.now
        /\ Headers["ACCESS-TIME-WINDOW"] = "1000"
        /\ SigningKey = request.options.secret[1]
        /\ SignedText = Headers["ACCESS-REQUEST-TIME"]
                        \o Headers["ACCESS-TIME-WINDOW"]
                        \o (IF request.request_body # None
                            THEN request.result.value.body[1]
                            ELSE PathAndQuery(request.builder))

C19_Witness ==
    /\ Signed
    /\ request.now > 1000
    /\ request.request_body = None
    /\ request.builder.query # None
    /\ SignedText = "10011000/v1/user/assets?pair=btc_jpy"

\* the four inputs of a signing
SigningInputs(options, builder, request_body, now) ==
    [secret |-> options.secret,
     timestamp |-> now,
     window |-> access_time_window,
     body_or_path |-> IF request_body # None
                      THEN json_to_string(request_body[1]).value
                      ELSE PathAndQuery(builder)]

\* the inputs in which two signings differ
Differing(i1, i2) == {f \in DOMAIN i1 : i1[f] # i2[f]}

\* another call of build_request that returns a signed request
OtherSignings ==
    {c \in [options : {o \in Options : o.http_auth}, builder : Builders,
            request_body : RequestBodies, now : Times] :
        build_request(c.options, c.builder, c.request_body, c.now).ok}

SignatureOf(c) ==
    build_request(c.options, c.builder, c.request_body, c.now)
        .value.headers["ACCESS-SIGNATURE"]

InputsOf(c) == SigningInputs(c.options, c.builder, c.request_body, c.now)

(***************************************************************************)
(* C20: the signature is a function of (secret, timestamp, window,         *)
(* body-or-path) only: a signing with the same four inputs gives the same  *)
(* signature, whatever else differs, and a signing that differs in exactly *)
(* one of the four gives a different signature (HMAC-SHA256 taken as       *)
(* injective in the pair of key and message).                              *)
(***************************************************************************)
C20_SignatureDeterminism ==
    Signed =>
        LET mine == SigningInputs(request.options, request.builder,
                                  request.request_body, request.now)
        IN  \A c \in OtherSignings :
                LET differing == Differing(mine, InputsOf(c))
                IN  /\ differing = {} => SignatureOf(c) = Headers["ACCESS-SIGNATURE"]
                    /\ Cardinality(differing) = 1
                        => SignatureOf(c) # Headers["ACCESS-SIGNATURE"]

C20_Witness ==
    /\ Signed
    /\ request.request_body # None
    /\ \E c \in OtherSignings :
        /\ Differing(SigningInputs(request.options, request.builder,
                                   request.request_body, request.now),
                     InputsOf(c)) = {"timestamp"}
        /\ c.builder.path # request.builder.path

\* authentication is switched on and the key or the secret is not configured
CredentialsMissing ==
    /\ request.kind = "build"
    /\ request.options.http_auth
    /\ (request.options.key = None \/ request.options.secret = None)

AuthenticationHeaders ==
    {"ACCESS-KEY", "ACCESS-REQUEST-TIME", "ACCESS-TIME-WINDOW", "ACCESS-SIGNATURE"}

(***************************************************************************)
(* C21: with authentication enabled and the API key or the API secret not  *)
(* configured, build_request returns a build error and no request; a       *)
(* request it returns with authentication enabled carries all four         *)
(* authentication headers.                                                 *)
(***************************************************************************)
C21_MissingCredentialsFail ==
    /\ CredentialsMissing =>
        /\ ~request.result.ok
        /\ DOMAIN request.result = {"ok", "error"}
        /\ (~request.builder.error
            /\ (request.request_body # None
                    => json_to_string(request.request_body[1]).ok))
            => request.result.error \in {"API secret not found", "API key not found"}
    /\ (request.kind = "build" /\ request.options.http_auth /\ request.result.ok)
        => AuthenticationHeaders \subseteq DOMAIN request.result.value.headers

C21_Witness ==
    /\ CredentialsMissing
    /\ request.options.secret # None
    /\ request.request_body # None
    /\ request.result = BuildError("API key not found")

(***************************************************************************)
(* C22: handle_message on a frame that is not text (binary, ping, pong)    *)
(* fails with an assertion failure; it does not return an empty reply.     *)
(***************************************************************************)
C22_NonTextIsDefect ==
    (last.op = "message" /\ last.arg.type \in {"Binary", "Ping", "Pong"})
        => (panicked /\ sink_calls = 0)

C22_Witness ==
    /\ last.op = "message"
    /\ last.arg.type = "Ping"
    /\ panicked
    /\ is_complete

(***************************************************************************)
(* C23: on every connection, the first and the later ones, handle_start    *)
(* returns exactly one frame, the text "40", whatever the configured       *)
(* channels and whatever was handled before.                               *)
(***************************************************************************)
C23_HandshakeLiteral ==
    last.op = "start" =>
        (sent = <<[type |-> "Text", data |-> "40"]>> /\ sink_calls = 0 /\ ~panicked)

C23_Witness ==
    /\ last.op = "start"
    /\ connections >= 2
    /\ Len(websocket_channels) >= 1
    /\ is_complete

\* the payload of the event frame last handled
EventPayload == Rest(last.arg.data, 3)

(***************************************************************************)
(* C24: handle_message on an event frame (outer tag 4, inner tag 2) with a *)
(* JSON payload passes the decoded payload to the message_handler exactly  *)
(* once and returns no frame (it fails only if the message_handler does);  *)
(* with a payload that is not JSON it does not call the message_handler    *)
(* and returns no frame.                                                   *)
(***************************************************************************)
C24_EventToSinkOnce ==
    Handled("42") =>
        IF \E v \in JsonValues : to_json(v) = EventPayload
        THEN /\ sink_calls = 1
             /\ Len(last.sink_args) = 1
             /\ to_json(last.sink_args[1]) = EventPayload
             /\ sent = <<>>
             /\ panicked = closure(new, last.sink_args[1]).panic
        ELSE /\ sink_calls = 0
             /\ last.sink_args = <<>>
             /\ sent = <<>>
             /\ ~panicked

C24_Witness ==
    /\ Handled("42")
    /\ sink_calls = 1
    /\ ~panicked
    /\ last.sink_args[1].kind = "event"
    /\ last.sink_args[1].room_name = "transactions_btc_jpy"
    /\ Len(websocket_channels) >= 1

\* the JSON texts among the bodies of the model
JsonBodies == {body_json(v) : v \in BodyValues}

(***************************************************************************)
(* C26: handle_response returns a successful value only when the status is *)
(* a success status, the body deserializes as R and the success field of   *)
(* the body is not 0; for every other status it returns an error, ApiError *)
(* when the body is JSON and ParseError otherwise.                         *)
(***************************************************************************)
C26_SuccessOnlyWhenAllHold ==
    response.kind = "response" =>
        /\ response.result.ok =>
            /\ response.status \in 200..299
            /\ response.body \in JsonBodies
            /\ response.R = "Typed" => response.body = body_json(Success)
            /\ response.body \notin {body_json(Failure(c)) : c \in ErrorCodes}
        /\ response.status \notin 200..299 =>
            /\ ~response.result.ok
            /\ response.result.error =
                (IF response.body \in JsonBodies THEN "ApiError" ELSE "ParseError")

C26_Witness ==
    /\ response.kind = "response"
    /\ response.result.ok
    /\ response.R = "Typed"
    /\ response.status = 201

\* the prices named by the rows
RowPrices(rows) == {rows[i][1] : i \in 1..Len(rows)}

\* the level of price p is the same in the two sides, present or absent
SameLevel(side, after, p) ==
    /\ (p \in DOMAIN after) = (p \in DOMAIN side)
    /\ p \in DOMAIN side => after[p] = side[p]

(***************************************************************************)
(* C27: on a complete book on_diff(d) changes only the levels d names:     *)
(* every ask whose price is not in d's ask rows and every bid whose price  *)
(* is not in d's bid rows is unchanged (ask rows never change bids, bid    *)
(* rows never change asks), and is_complete and the diff buffer are        *)
(* unchanged.                                                              *)
(***************************************************************************)
C27_DiffFrame ==
    (last.op = "diff" /\ last.before.is_complete) =>
        /\ \A p \in (DOMAIN asks \cup DOMAIN last.before.asks \cup Prices)
                    \ RowPrices(last.arg.a) :
                SameLevel(last.before.asks, asks, p)
        /\ \A p \in (DOMAIN bids \cup DOMAIN last.before.bids \cup Prices)
                    \ RowPrices(last.arg.b) :
                SameLevel(last.before.bids, bids, p)
        /\ is_complete
        /\ diff_buffer = last.before.diff_buffer

C27_Witness ==
    /\ last.op = "diff"
    /\ last.before.is_complete
    /\ last.arg.a # <<>>
    /\ last.arg.b = <<>>
    /\ asks # last.before.asks
    /\ DOMAIN last.before.asks \ RowPrices(last.arg.a) # {}
    /\ bids # EmptyMap

\* a ping waits in the queue of received frames
PingWaiting == \E i \in 1..Len(inbox) : inbox[i] = [type |-> "Text", data |-> "2"]

(***************************************************************************)
(* C25: the heartbeat has priority over event dispatch: a ping received    *)
(* while the message_handler of an event runs is answered without waiting  *)
(* for the message_handler, so no message_handler ever returns while a     *)
(* ping received during its run is still waiting for its pong.             *)
(***************************************************************************)
C25_PongNotBehindCallback ==
    [][(callback.running /\ ~callback'.running) => ~PingWaiting]_vars

(***************************************************************************)
(* C28: the BitbankOptions BitbankOptions::default returns carry a         *)
(* WebSocketConfig whose ignore_duplicate_during_reconnection is true, the *)
(* value default() sets on its configuration.                              *)
(***************************************************************************)
C28_DefaultIgnoresDuplicates ==
    last.op = "default" =>
        bitbank_options.websocket_config.ignore_duplicate_during_reconnection = TRUE

====
